---- MODULE Spec2Model ----
(***************************************************************************)
(* Model of src/App.tsx: the seating-plan editor's synchronisation between *)
(* the local React state (tables / savedTables / unsavedChanges and the    *)
(* two refs isLocalUpdate / isRemoteUpdate), the remote "tables" row and   *)
(* the realtime UPDATE notifications, plus the "logs" audit table.         *)
(*                                                                         *)
(* One action is one turn of the browser's event loop: the event handler,  *)
(* the React render it causes and the effects of that render.  Effect 3    *)
(* (auto-save, deps [tables]) runs exactly when the identity of `tables`   *)
(* changed, so every layout object carries a reference `ref` next to its   *)
(* content `val`.  Effect 2 (subscription, deps [unsavedChanges]) makes    *)
(* the notification handler read the committed value of unsavedChanges.    *)
(*                                                                         *)
(* The environment: the store executes the upserts in any order and at any *)
(* time, answers them at any later time, and an upsert it has not executed *)
(* may fail; notifications reach the session in the order of the writes,   *)
(* independently of the answers; other sessions write the row; the "logs"  *)
(* table is either reachable or not for the whole session.  The user       *)
(* starts acting once the initial select has been answered.                *)
(*                                                                         *)
(* Three specifications: Spec, the session with the controls the page      *)
(* renders; SpecOk, the same with no failing upsert; SpecApi, the handlers *)
(* as functions of any arguments over layouts drawn from a bounded set.    *)
(***************************************************************************)
EXTENDS Integers, Sequences, FiniteSets, TLC

\* ------------------------------------------------------------------ bounds
\* regular tables in the layout (the source builds 50)
NumRegular == 1
\* user gestures (handler invocations) explored per behaviour
MaxOps == 3
\* writes by other sessions explored per behaviour
MaxExternal == 1
\* upserts of this session simultaneously in flight
MaxInFlight == 2
\* notifications simultaneously queued for this session
MaxNotifs == 2
MaxApiOps == 2        \* calls explored by SpecApi

\* ------------------------------------------------------- program constants
DefaultCount == 10
MinChairs == 1
MaxChairs == 10
SpecialX == 700
SpecialY == 80

\* ------------------------------------------------------------ layout model
Min(a, b) == IF a < b THEN a ELSE b
Max(a, b) == IF a > b THEN a ELSE b

createChairsFresh(tableId, count, prevChairs) ==
    [i \in 1..count |->
        [id    |-> tableId * 100 + (i - 1),
         name  |-> "",
         group |-> "",
         angle |-> <<i - 1, count>>]]

createChairsOneBased(tableId, count, prevChairs) ==
    [i \in 1..count |->
        [id    |-> tableId * 100 + i,
         name  |-> IF i <= Len(prevChairs) THEN prevChairs[i].name ELSE "",
         group |-> IF i <= Len(prevChairs) THEN prevChairs[i].group ELSE "",
         angle |-> <<i - 1, count>>]]

\* angle i * (2*PI / count) is kept as the pair <<i, count>>
createChairs(tableId, count, prevChairs) ==
    [i \in 1..count |->
        [id    |-> tableId * 100 + (i - 1),
         name  |-> IF i <= Len(prevChairs) THEN prevChairs[i].name ELSE "",
         group |-> IF i <= Len(prevChairs) THEN prevChairs[i].group ELSE "",
         angle |-> <<i - 1, count>>]]

RegularTable(i) ==
    [id |-> i,
     x  |-> IF i <= 25 THEN 300 + ((i - 1) % 5) * 160
                       ELSE 1000 + ((i - 1) % 5) * 160,
     y  |-> 300 + (((i - 1) % 25) \div 5) * 140,
     chairs |-> createChairs(i, DefaultCount, <<>>),
     isDragging |-> FALSE,
     special |-> FALSE]

\* Math.PI is half a turn: <<1, 2>>
generateInitialTables ==
    <<[id |-> 0, x |-> SpecialX, y |-> SpecialY,
       chairs |-> <<[id |-> 1, name |-> "", group |-> "", angle |-> <<0, 1>>],
                    [id |-> 2, name |-> "", group |-> "", angle |-> <<1, 2>>]>>,
       isDragging |-> FALSE,
       special |-> TRUE]>>
    \o [i \in 1..NumRegular |-> RegularTable(i)]

UpdateChairMapAnyTable(prev, tableId, chairId, field, value) ==
    [k \in 1..Len(prev) |->
        [prev[k] EXCEPT !.chairs =
            [j \in 1..Len(prev[k].chairs) |->
                IF prev[k].chairs[j].id = chairId
                THEN IF field = "name"
                     THEN [prev[k].chairs[j] EXCEPT !.name = value]
                     ELSE [prev[k].chairs[j] EXCEPT !.group = value]
                ELSE prev[k].chairs[j]]]]

\* the array produced by the updater of updateChair
UpdateChairMap(prev, tableId, chairId, field, value) ==
    [k \in 1..Len(prev) |->
        IF prev[k].id = tableId
        THEN [prev[k] EXCEPT !.chairs =
                [j \in 1..Len(prev[k].chairs) |->
                    IF prev[k].chairs[j].id = chairId
                    THEN IF field = "name"
                         THEN [prev[k].chairs[j] EXCEPT !.name = value]
                         ELSE [prev[k].chairs[j] EXCEPT !.group = value]
                    ELSE prev[k].chairs[j]]]
        ELSE prev[k]]

\* the array produced by the updater of adjustChairCount
AdjustChairMap(prev, tableId, delta) ==
    [k \in 1..Len(prev) |->
        IF prev[k].id # tableId \/ prev[k].special
        THEN prev[k]
        ELSE [prev[k] EXCEPT !.chairs =
                createChairs(prev[k].id,
                             Max(MinChairs, Min(MaxChairs, Len(prev[k].chairs) + delta)),
                             prev[k].chairs)]]

MouseDownMap(prev, id) ==
    [k \in 1..Len(prev) |->
        IF prev[k].id = id THEN [prev[k] EXCEPT !.isDragging = TRUE] ELSE prev[k]]

MouseMoveMap(prev, dx, dy) ==
    [k \in 1..Len(prev) |->
        IF prev[k].isDragging
        THEN [prev[k] EXCEPT !.x = prev[k].x + dx, !.y = prev[k].y + dy]
        ELSE prev[k]]

MouseUpMap(prev) ==
    [k \in 1..Len(prev) |-> [prev[k] EXCEPT !.isDragging = FALSE]]


\* ------------------------------------------------------------------- state
VARIABLES
    tables,          \* useState tables: [ref, val]
    savedTables,     \* useState savedTables: [ref, val]
    unsavedChanges,  \* useState unsavedChanges
    isLocalUpdate,   \* useRef isLocalUpdate.current
    isRemoteUpdate,  \* useRef isRemoteUpdate.current
    dragOffset,      \* useState dragOffset
    load,            \* the initial select: "sent", "answered" or "done"
    loadData,        \* the answer of the select: <<>> (no row) or <<layout>>
    row,             \* row id=1 of the remote table "tables": <<>> or <<layout>>
    upserts,         \* this session's upserts in flight
    notifs,          \* UPDATE notifications on their way to this session
    logs,            \* the remote table "logs"
    logsUp,          \* whether an insert into "logs" succeeds
    ops,             \* user gestures handled so far
    externals,       \* writes of other sessions so far
    lastOp,          \* the event handled last (history)
    lastArgs         \* the arguments of that event (history)

vars == <<tables, savedTables, unsavedChanges, isLocalUpdate, isRemoteUpdate,
          dragOffset, load, loadData, row, upserts, notifs, logs, logsUp,
          ops, externals, lastOp, lastArgs>>

\* ------------------------------------------------------------------ inputs
\* the seats whose inputs the user types into: <<table.id, chair.id>>
EditedSeats == {<<1, 100>>}
NameInputs == {"Alice"}
\* clientX / clientY of the mouse-down and of the mouse-move events
PressPoints == {[x |-> 0, y |-> 0]}
MovePoints == {[x |-> 10, y |-> -10]}
\* tables the user presses the mouse on
PressedTables == {0}
\* tables whose - / + the user clicks (rendered for non-special tables only)
ResizedTables == {1}
Deltas == {-1}
\* what another session has written: the initial layout with one guest placed
ExternalLayout == UpdateChairMap(generateInitialTables, 1, 100, "name", "Bob")

\* --------------------------------------------------------- object identity
\* References only matter up to equality, and only among the objects still
\* held by the state; a new object takes the least reference not held.
UsedRefs == {tables.ref, savedTables.ref}
            \cup {upserts[i].data.ref : i \in 1..Len(upserts)}
FreshRef == CHOOSE r \in 0..(Len(upserts) + 2) :
                /\ r \notin UsedRefs
                /\ \A q \in 0..(Len(upserts) + 2) : q \notin UsedRefs => r <= q
NewObj(v) == [ref |-> FreshRef, val |-> v]

RemoveAt(s, i) == [k \in 1..(Len(s) - 1) |-> IF k < i THEN s[k] ELSE s[k + 1]]

logChangeOnTop(es) == IF logsUp THEN es \o logs ELSE logs
\* logChange for each entry of `es`: the insert appends the entry, or fails
\* and leaves only a console message
logChange(es) == IF logsUp THEN logs \o es ELSE logs

\* ---------------------------------------------------------------- effects
\* Effect 3 (auto-save), run after a render in which `tables` became `t`.
\* Result: the refs and the upserts after the effect.
AutoSaveEffect(t, changed, loc, rem) ==
    IF ~changed THEN [loc |-> loc, rem |-> rem, ups |-> upserts]
    ELSE IF rem THEN [loc |-> loc, rem |-> FALSE, ups |-> upserts]
    ELSE IF ~loc THEN [loc |-> loc, rem |-> rem, ups |-> upserts]
    ELSE [loc |-> FALSE, rem |-> rem,
          ups |-> Append(upserts, [data |-> t, kind |-> "auto", status |-> "sent"])]

\* a turn of the event loop that leaves `tables` = t with the refs loc / rem
\* set by the handler; the effect may issue an upsert only if there is room
Commit(t, loc, rem) ==
    LET e == AutoSaveEffect(t, t.ref # tables.ref, loc, rem) IN
    /\ Len(e.ups) <= MaxInFlight
    /\ tables' = t
    /\ isLocalUpdate' = e.loc
    /\ isRemoteUpdate' = e.rem
    /\ upserts' = e.ups

\* the state at mount: two generateInitialTables() objects, the select sent;
\* the row is missing or holds what another session wrote earlier
Init ==
    /\ tables = [ref |-> 0, val |-> generateInitialTables]
    /\ savedTables = [ref |-> 1, val |-> generateInitialTables]
    /\ unsavedChanges = FALSE
    /\ isLocalUpdate = FALSE
    /\ isRemoteUpdate = FALSE
    /\ dragOffset = [x |-> 0, y |-> 0]
    /\ load = "sent"
    /\ loadData = <<>>
    /\ row \in {<<>>, <<ExternalLayout>>}
    /\ upserts = <<>>
    /\ notifs = <<>>
    /\ logs = <<>>
    /\ logsUp \in BOOLEAN
    /\ ops = 0
    /\ externals = 0
    /\ lastOp = "mount"
    /\ lastArgs = <<>>


\* -------------------------------------------------- realtime notification
RemoteDraftAlways(prev, updatedData, dirty) == updatedData
RemoteDraftNever(prev, updatedData, dirty) == prev
\* setTables((prev) => unsavedChanges ? prev : updatedData)
RemoteDraft(prev, updatedData, dirty) == IF dirty THEN prev ELSE updatedData

RemoteMarkKept(rem) == rem
\* isRemoteUpdate.current = true, before the setters
RemoteMark(rem) == TRUE

\* the handler of the postgres_changes subscription, for the oldest
\* notification on its way; payload.new.data is a new object
onRemoteUpdate ==
    /\ notifs # <<>>
    /\ LET updatedData == NewObj(Head(notifs).data) IN
       /\ savedTables' = updatedData
       /\ Commit(RemoteDraft(tables, updatedData, unsavedChanges),
                 isLocalUpdate, RemoteMark(isRemoteUpdate))
    /\ notifs' = Tail(notifs)
    /\ lastOp' = IF unsavedChanges THEN "remoteDirty" ELSE "remoteClean"
    /\ lastArgs' = <<>>
    /\ UNCHANGED <<logsUp, unsavedChanges, dragOffset, load, loadData, row, logs, ops,
                   externals>>

\* ------------------------------------------------------------ initial load
\* the select reaches the store
LoadRead ==
    /\ load = "sent"
    /\ load' = "answered"
    /\ loadData' = row
    /\ lastOp' = "store"
    /\ lastArgs' = <<>>
    /\ UNCHANGED <<logsUp, tables, savedTables, unsavedChanges, isLocalUpdate,
                   isRemoteUpdate, dragOffset, row, upserts, notifs, logs, ops,
                   externals>>

\* the answer is handled: if (!error && data?.data) { setTables; setSavedTables }
LoadDone ==
    /\ load = "answered"
    /\ load' = "done"
    /\ IF loadData # <<>>
       THEN LET fetched == NewObj(loadData[1]) IN
            /\ savedTables' = fetched
            /\ Commit(fetched, isLocalUpdate, isRemoteUpdate)
            /\ lastOp' = "loadFound"
            /\ lastArgs' = <<>>
       ELSE /\ lastOp' = "loadMissing"
            /\ lastArgs' = <<>>
            /\ UNCHANGED <<logsUp, tables, savedTables, isLocalUpdate, isRemoteUpdate,
                           upserts>>
    /\ UNCHANGED <<logsUp, unsavedChanges, dragOffset, loadData, row, notifs, logs, ops,
                   externals>>

\* ------------------------------------------------------------ drag & drop
\* The user acts on the plan once the initial select has been answered, and
\* MaxOps gestures are explored.
Interactive == load = "done" /\ ops < MaxOps

handleMouseDown(p, id) ==
    /\ Interactive
    /\ \E k \in 1..Len(tables.val) : tables.val[k].id = id
    /\ dragOffset' = p
    /\ Commit(NewObj(MouseDownMap(tables.val, id)), isLocalUpdate, isRemoteUpdate)
    /\ ops' = ops + 1
    /\ lastOp' = "mouseDown"
    /\ lastArgs' = <<p, id>>
    /\ UNCHANGED <<logsUp, savedTables, unsavedChanges, load, loadData, row, notifs,
                   logs, externals>>

handleMouseMove(p) ==
    /\ Interactive
    /\ dragOffset' = p
    /\ Commit(NewObj(MouseMoveMap(tables.val, p.x - dragOffset.x, p.y - dragOffset.y)),
              isLocalUpdate, isRemoteUpdate)
    /\ ops' = ops + 1
    /\ lastOp' = "mouseMove"
    /\ lastArgs' = <<p>>
    /\ UNCHANGED <<logsUp, savedTables, unsavedChanges, load, loadData, row, notifs,
                   logs, externals>>

Dragged(prev) == SelectSeq(prev, LAMBDA t : t.isDragging)
MoveEntries(prev) ==
    [k \in 1..Len(Dragged(prev)) |->
        [action |-> "move_table",
         details |-> [tableId |-> Dragged(prev)[k].id,
                      newX |-> Dragged(prev)[k].x,
                      newY |-> Dragged(prev)[k].y]]]

handleMouseUp ==
    /\ Interactive
    /\ LET moved == Dragged(tables.val) # <<>> IN
       /\ unsavedChanges' = (moved \/ unsavedChanges)
       /\ Commit(NewObj(MouseUpMap(tables.val)), moved \/ isLocalUpdate,
                 isRemoteUpdate)
       /\ lastOp' = IF moved THEN "mouseUpMoved" ELSE "mouseUp"
       /\ lastArgs' = <<>>
    /\ logs' = logChange(MoveEntries(tables.val))
    /\ ops' = ops + 1
    /\ UNCHANGED <<logsUp, savedTables, dragOffset, load, loadData, row, notifs,
                   externals>>


\* ----------------------------------------------------------- seat editing
Field(c, field) == IF field = "name" THEN c.name ELSE c.group

\* the chairs the updater of updateChair rewrites, in map order
Matching(prev, tableId, chairId) ==
    LET ts == SelectSeq(prev, LAMBDA t : t.id = tableId)
        cs(t) == SelectSeq(t.chairs, LAMBDA c : c.id = chairId)
    IN  IF ts = <<>> THEN <<>> ELSE cs(ts[1])

WithField(c, field, value) ==
    IF field = "name" THEN [c EXCEPT !.name = value] ELSE [c EXCEPT !.group = value]

UpdateEntries(prev, tableId, chairId, field, value) ==
    [k \in 1..Len(Matching(prev, tableId, chairId)) |->
        [action |-> "update_chair",
         details |-> [tableId |-> tableId, chairId |-> chairId, field |-> field,
                      previous |-> Matching(prev, tableId, chairId)[k],
                      updated |-> WithField(Matching(prev, tableId, chairId)[k],
                                            field, value)]]]

\* updateChair as a function, whatever its arguments
updateChairCall(tableId, chairId, field, value) ==
    /\ Interactive
    /\ unsavedChanges' = TRUE
    /\ Commit(NewObj(UpdateChairMap(tables.val, tableId, chairId, field, value)),
              TRUE, isRemoteUpdate)
    /\ logs' = logChange(UpdateEntries(tables.val, tableId, chairId, field, value))
    /\ ops' = ops + 1
    /\ lastOp' = "updateChair"
    /\ lastArgs' = <<tableId, chairId, field, value>>
    /\ UNCHANGED <<logsUp, savedTables, dragOffset, load, loadData, row, notifs,
                   externals>>

\* onChange of the name input / group select of a rendered seat: the seat
\* exists and the value differs from the one shown
updateChair(tableId, chairId, field, value) ==
    /\ Matching(tables.val, tableId, chairId) # <<>>
    /\ Field(Matching(tables.val, tableId, chairId)[1], field) # value
    /\ updateChairCall(tableId, chairId, field, value)

Resized(prev, tableId) == SelectSeq(prev, LAMBDA t : t.id = tableId /\ ~t.special)
AdjustEntries(prev, tableId, delta) ==
    [k \in 1..Len(Resized(prev, tableId)) |->
        [action |-> "adjust_chair_count",
         details |-> [tableId |-> tableId,
                      before |-> Len(Resized(prev, tableId)[k].chairs),
                      after |-> Max(MinChairs, Min(MaxChairs,
                                   Len(Resized(prev, tableId)[k].chairs) + delta))]]]

\* onClick of the - / + of a rendered table
adjustChairCount(tableId, delta) ==
    /\ Interactive
    /\ unsavedChanges' = TRUE
    /\ Commit(NewObj(AdjustChairMap(tables.val, tableId, delta)), TRUE, isRemoteUpdate)
    /\ logs' = logChange(AdjustEntries(tables.val, tableId, delta))
    /\ ops' = ops + 1
    /\ lastOp' = "adjustChairCount"
    /\ lastArgs' = <<tableId, delta>>
    /\ UNCHANGED <<logsUp, savedTables, dragOffset, load, loadData, row, notifs,
                   externals>>

\* ----------------------------------------------------------- save / reset
\* handleSave up to its await; the button is disabled unless unsavedChanges
handleSave ==
    /\ Interactive
    /\ unsavedChanges
    /\ Len(upserts) < MaxInFlight
    /\ isLocalUpdate' = TRUE
    /\ unsavedChanges' = FALSE
    /\ upserts' = Append(upserts, [data |-> tables, kind |-> "manual", status |-> "sent"])
    /\ ops' = ops + 1
    /\ lastOp' = "save"
    /\ lastArgs' = <<>>
    /\ UNCHANGED <<logsUp, tables, savedTables, isRemoteUpdate, dragOffset, load,
                   loadData, row, notifs, logs, externals>>

ResetLocalKept(loc) == loc
\* the value of isLocalUpdate.current that handleReset leaves
ResetLocal(loc) == FALSE

ResetDraftKept(draft, saved) == draft
\* setTables(savedTables)
ResetDraft(draft, saved) == saved

\* handleReset; the button is disabled unless unsavedChanges.  The details
\* of reset_changes are the empty object.
handleReset ==
    /\ Interactive
    /\ unsavedChanges
    /\ unsavedChanges' = FALSE
    /\ Commit(ResetDraft(tables, savedTables), ResetLocal(isLocalUpdate), isRemoteUpdate)
    /\ logs' = logChange(<<[action |-> "reset_changes", details |-> <<>>]>>)
    /\ ops' = ops + 1
    /\ lastOp' = IF isLocalUpdate THEN "resetStale" ELSE "reset"
    /\ lastArgs' = <<>>
    /\ UNCHANGED <<logsUp, savedTables, dragOffset, load, loadData, row, notifs,
                   externals>>

\* -------------------------------------------------------- the remote store
\* an UPDATE of the row is notified; the INSERT of a missing row is not
Notified(own, data) ==
    IF row = <<>> THEN notifs ELSE Append(notifs, [data |-> data, own |-> own])

\* the store executes upsert i
StoreApply(i) ==
    /\ upserts[i].status = "sent"
    /\ Len(Notified(TRUE, upserts[i].data.val)) <= MaxNotifs
    /\ row' = <<upserts[i].data.val>>
    /\ notifs' = Notified(TRUE, upserts[i].data.val)
    /\ upserts' = [upserts EXCEPT ![i].status = "ok"]
    /\ lastOp' = "store"
    /\ lastArgs' = <<>>
    /\ UNCHANGED <<logsUp, tables, savedTables, unsavedChanges, isLocalUpdate,
                   isRemoteUpdate, dragOffset, load, loadData, logs, ops,
                   externals>>

\* another session writes the row
ExternalWrite ==
    /\ externals < MaxExternal
    /\ Len(Notified(FALSE, ExternalLayout)) <= MaxNotifs
    /\ row' = <<ExternalLayout>>
    /\ notifs' = Notified(FALSE, ExternalLayout)
    /\ externals' = externals + 1
    /\ lastOp' = "store"
    /\ lastArgs' = <<>>
    /\ UNCHANGED <<logsUp, tables, savedTables, unsavedChanges, isLocalUpdate,
                   isRemoteUpdate, dragOffset, load, loadData, upserts, logs,
                   ops>>

\* ------------------------------------------------ answers to the upserts
\* An upsert the store has executed is answered without error.  One it has
\* not executed may fail at any moment; the store is then left as it was and
\* the continuation runs with the error.
\* what the continuation of an upsert leaves in unsavedChanges
DirtyAfter(kind, error, dirty) ==
    IF kind = "auto" /\ ~error THEN FALSE ELSE dirty

SavedAfterLogged(error, data, saved) == IF ~error /\ logsUp THEN data ELSE saved
\* if (!error) setSavedTables(tables), which precedes the logChange of
\* handleSave and does not wait for it
SavedAfter(error, data, saved) == IF error THEN saved ELSE data

\* the continuation of save() in the auto-save effect
AutoSaveDone(i) ==
    /\ upserts[i].kind = "auto"
    /\ savedTables' = SavedAfter(upserts[i].status = "sent", upserts[i].data, savedTables)
    /\ unsavedChanges' = DirtyAfter("auto", upserts[i].status = "sent", unsavedChanges)
    /\ upserts' = RemoveAt(upserts, i)
    /\ lastOp' = IF upserts[i].status = "ok" THEN "autoOk" ELSE "autoError"
    /\ lastArgs' = <<>>
    /\ UNCHANGED <<logsUp, tables, isLocalUpdate, isRemoteUpdate, dragOffset, load,
                   loadData, row, notifs, logs, ops, externals>>

\* the continuation of handleSave after its await; the version (a time
\* stamp) in the details of save_tables is left out
handleSaveDone(i) ==
    /\ upserts[i].kind = "manual"
    /\ savedTables' = SavedAfter(upserts[i].status = "sent", upserts[i].data, savedTables)
    /\ unsavedChanges' = DirtyAfter("manual", upserts[i].status = "sent", unsavedChanges)
    /\ upserts' = RemoveAt(upserts, i)
    /\ logs' = logChange(IF upserts[i].status = "ok"
                            THEN <<[action |-> "save_tables", details |-> <<>>]>>
                            ELSE <<>>)
    /\ lastOp' = IF upserts[i].status = "ok" THEN "saveOk" ELSE "saveError"
    /\ lastArgs' = <<>>
    /\ UNCHANGED <<logsUp, tables, isLocalUpdate, isRemoteUpdate, dragOffset, load,
                   loadData, row, notifs, ops, externals>>

\* ------------------------------------------------------------ specification
Next ==
    \/ LoadRead
    \/ LoadDone
    \/ onRemoteUpdate
    \/ \E p \in PressPoints, id \in PressedTables : handleMouseDown(p, id)
    \/ \E p \in MovePoints : handleMouseMove(p)
    \/ handleMouseUp
    \/ \E s \in EditedSeats, v \in NameInputs : updateChair(s[1], s[2], "name", v)
    \/ \E t \in ResizedTables, d \in Deltas : adjustChairCount(t, d)
    \/ handleSave
    \/ handleReset
    \/ \E i \in 1..Len(upserts) : StoreApply(i)
    \/ ExternalWrite
    \/ \E i \in 1..Len(upserts) : AutoSaveDone(i)
    \/ \E i \in 1..Len(upserts) : handleSaveDone(i)

Spec == Init /\ [][Next]_vars

\* ------------------------------------------- the handlers as functions
\* updateChair and adjustChairCount take any table id, chair id and delta;
\* the rendered controls send only some of them.  SpecApi calls them with
\* arguments beyond those, on a session that has loaded a row in which the
\* regular tables have been resized and their seats given guests.
GuestNames == <<"Awa", "Ben", "Cleo", "Dan", "Eve", "Finn", "Gil", "Hoa", "Ida", "Jo">>
GuestGroup == "Amis Laken"

SeatedChairs(tableId, count) ==
    [i \in 1..count |->
        [createChairs(tableId, count, <<>>)[i]
            EXCEPT !.name = GuestNames[i], !.group = GuestGroup]]

\* the initial layout with count named seats at every regular table
SeatedLayout(count) ==
    [k \in 1..Len(generateInitialTables) |->
        IF generateInitialTables[k].special
        THEN generateInitialTables[k]
        ELSE [generateInitialTables[k]
                EXCEPT !.chairs = SeatedChairs(generateInitialTables[k].id, count)]]

ApiCounts == MinChairs..MaxChairs
ApiTables == {0, 1}
ApiDeltas == {-5, -1, 1, 5}
\* <<table.id, chair.id>>: a seat of a regular table, a seat of the special
\* table, and pairs that match no seat
ApiSeats == {<<1, 100>>, <<0, 1>>, <<1, 1>>, <<2, 100>>}
ApiFields == {"name", "group"}

InitApi ==
    /\ \E c \in ApiCounts :
          /\ tables = [ref |-> 0, val |-> SeatedLayout(c)]
          /\ row = <<SeatedLayout(c)>>
    /\ savedTables = tables
    /\ loadData = row
    /\ load = "done"
    /\ unsavedChanges = FALSE
    /\ isLocalUpdate = FALSE
    /\ isRemoteUpdate = FALSE
    /\ dragOffset = [x |-> 0, y |-> 0]
    /\ upserts = <<>>
    /\ notifs = <<>>
    /\ logs = <<>>
    /\ logsUp = TRUE
    /\ ops = 0
    /\ externals = 0
    /\ lastOp = "loadFound"
    /\ lastArgs = <<>>

\* MaxApiOps calls are explored
ApiCall == ops < MaxApiOps

NextApi ==
    \/ \E t \in ApiTables, d \in ApiDeltas : ApiCall /\ adjustChairCount(t, d)
    \/ \E s \in ApiSeats, f \in ApiFields, v \in NameInputs :
            ApiCall /\ updateChairCall(s[1], s[2], f, v)
    \/ \E p \in PressPoints, id \in PressedTables : ApiCall /\ handleMouseDown(p, id)
    \/ \E p \in MovePoints : ApiCall /\ handleMouseMove(p)
    \/ ApiCall /\ handleMouseUp
    \/ onRemoteUpdate
    \/ \E i \in 1..Len(upserts) : StoreApply(i)
    \/ \E i \in 1..Len(upserts) : AutoSaveDone(i)

SpecApi == InitApi /\ [][NextApi]_vars

\* The same session with a store that is always reached: no upsert fails,
\* every continuation runs after the store has executed its upsert.
NextOk ==
    \/ LoadRead
    \/ LoadDone
    \/ onRemoteUpdate
    \/ \E p \in PressPoints, id \in PressedTables : handleMouseDown(p, id)
    \/ \E p \in MovePoints : handleMouseMove(p)
    \/ handleMouseUp
    \/ \E s \in EditedSeats, v \in NameInputs : updateChair(s[1], s[2], "name", v)
    \/ \E t \in ResizedTables, d \in Deltas : adjustChairCount(t, d)
    \/ handleSave
    \/ handleReset
    \/ \E i \in 1..Len(upserts) : StoreApply(i)
    \/ ExternalWrite
    \/ \E i \in 1..Len(upserts) : upserts[i].status = "ok" /\ AutoSaveDone(i)
    \/ \E i \in 1..Len(upserts) : upserts[i].status = "ok" /\ handleSaveDone(i)

SpecOk == Init /\ [][NextOk]_vars


\* ================================================================== claims
\* the step handles the oldest notification
Handled == notifs # <<>> /\ notifs' = Tail(notifs)
\* the step runs the continuation of upsert i
Answered(i) == Len(upserts') < Len(upserts) /\ upserts' = RemoveAt(upserts, i)
\* the step is a local mutation: a seat edit, a resize or a completed drag
Mutated == lastOp' \in {"updateChair", "adjustChairCount", "mouseUpMoved"}
\* the step is a reset
ResetStep == lastOp' \in {"reset", "resetStale"}
NoDrag(l) == \A k \in 1..Len(l) : ~l[k].isDragging
\* an upsert of the very draft on screen has not been answered yet
PendingDraft == \E i \in 1..Len(upserts) : upserts[i].data.ref = tables.ref

\* C1: a notification carrying R handled while unsavedChanges is true leaves
\* the draft (the same object) as it was and makes the saved snapshot R.
C1_DirtyRemoteKeepsDraft ==
    [][(Handled /\ unsavedChanges)
        => (tables' = tables /\ savedTables'.val = Head(notifs).data)]_vars

\* C1 happens: a notification was handled over a dirty draft that differs
\* from it, with an upsert of this session still in flight.
C1_Witness ==
    /\ lastOp = "remoteDirty"
    /\ unsavedChanges
    /\ savedTables.val # tables.val
    /\ upserts # <<>>

\* C2: a notification carrying R handled while unsavedChanges is false leaves
\* draft = R, saved = R and unsavedChanges false.
C2_CleanRemoteAdopted ==
    [][(Handled /\ ~unsavedChanges)
        => /\ tables'.val = Head(notifs).data
           /\ savedTables'.val = Head(notifs).data
           /\ ~unsavedChanges']_vars

\* C2 happens: after some gesture a notification was handled over a clean
\* draft, which is now the notified layout.
C2_Witness ==
    /\ lastOp = "remoteClean"
    /\ ops > 0
    /\ tables = savedTables
    /\ tables.val = ExternalLayout

\* C3 (as claimed): every upsert answered without error leaves
\* unsavedChanges false and saved equal to the draft it was issued with.
C3_SuccessClearsDirty ==
    [][\A i \in 1..Len(upserts) :
        (upserts[i].status = "ok" /\ Answered(i))
            => (savedTables' = upserts[i].data /\ ~unsavedChanges')]_vars

\* C4 (as claimed): after an upsert has failed, automatic or manual,
\* unsavedChanges is true and the draft is unchanged.
C4_FailureKeepsDirty ==
    [][\A i \in 1..Len(upserts) :
        (upserts[i].status = "sent" /\ Answered(i))
            => (unsavedChanges' /\ tables' = tables)]_vars

\* C5 (as claimed): the echo of the session's own write never replaces the
\* content of a draft (no drag under way) whose own upsert has not been
\* answered yet.
C5_EchoKeepsPendingDraft ==
    [][(Handled /\ Head(notifs).own /\ PendingDraft /\ NoDrag(tables.val))
        => tables'.val = tables.val]_vars

\* C6 (as claimed, the direction "not dirty => nothing unpersisted"): when
\* unsavedChanges is false and no drag is under way, the draft is the
\* layout last confirmed by the store.
C6_CleanMeansPersisted ==
    (~unsavedChanges /\ NoDrag(tables.val)) => tables.val = savedTables.val

\* C7 (as claimed): reset makes draft = saved and clears unsavedChanges, and
\* draft = saved still holds when an upsert that was in flight at the reset
\* is answered next.
C7_ResetEqualitySurvives ==
    [][/\ ResetStep => (tables' = savedTables /\ ~unsavedChanges')
       /\ (lastOp \in {"reset", "resetStale"} /\ \E i \in 1..Len(upserts) : Answered(i))
            => tables'.val = savedTables'.val]_vars

\* C7 (amended): reset makes the draft the saved snapshot held at that
\* moment, leaves that snapshot as it is and clears unsavedChanges; the
\* snapshot itself is only ever set by the initial load, by a notification
\* or by an upsert answered without error.
C7_ResetRestoresSaved ==
    [][/\ ResetStep => /\ tables' = savedTables
                       /\ savedTables' = savedTables
                       /\ ~unsavedChanges'
       /\ savedTables' # savedTables
            => lastOp' \in {"loadFound", "remoteDirty", "remoteClean",
                            "autoOk", "saveOk"}]_vars

\* C7 happens: a reset discarded an edit whose upsert is still in flight.
C7_Witness ==
    /\ lastOp \in {"reset", "resetStale"}
    /\ tables = savedTables
    /\ ~unsavedChanges
    /\ \E i \in 1..Len(upserts) : upserts[i].data.val # tables.val

\* C8: a reset issues no upsert and leaves the stored row alone, whatever
\* isLocalUpdate / isRemoteUpdate were.
C8_ResetWritesNothing ==
    [][ResetStep => (upserts' = upserts /\ row' = row)]_vars

\* C8 happens: a reset ran while isLocalUpdate was still set from before and
\* effect 3 ran for it (it had cleared isRemoteUpdate or found it clear).
C8_Witness ==
    /\ lastOp = "resetStale"
    /\ ~isLocalUpdate
    /\ ~isRemoteUpdate

\* C9 (as claimed): every local mutation leaves an upsert of the mutated
\* draft in flight.
C9_MutationIsPersisted ==
    [][Mutated => \E i \in 1..Len(upserts') : upserts'[i].data = tables']_vars

\* C10 (as claimed): once the initial select is handled, a missing row has
\* been seeded with the initial layout and draft = saved = that seed; a row
\* that was found is both draft and saved; and saved is the stored row.
C10_InitializeSeedsOrAdopts ==
    (lastOp \in {"loadFound", "loadMissing"})
        => /\ IF loadData = <<>>
              THEN /\ row = <<generateInitialTables>>
                   /\ tables.val = generateInitialTables
                   /\ savedTables.val = generateInitialTables
              ELSE /\ tables.val = loadData[1]
                   /\ savedTables.val = loadData[1]
           /\ row = <<savedTables.val>>

\* C11: a logChange whose insert fails changes nothing of the document
\* state.  Whether the log sink is up or down, every mutator step leaves
\* the draft, the saved snapshot and unsavedChanges that its arguments and
\* the state before it dictate, and nothing else: the edit is applied and
\* marks the draft dirty, the save clears the flag and its answered upsert
\* becomes the snapshot, the reset restores the snapshot.
C11_AuditFailureHarmless ==
    [][/\ lastOp' = "updateChair"
            => /\ tables'.val = UpdateChairMap(tables.val, lastArgs'[1], lastArgs'[2],
                                               lastArgs'[3], lastArgs'[4])
               /\ savedTables' = savedTables
               /\ unsavedChanges'
       /\ lastOp' = "adjustChairCount"
            => /\ tables'.val = AdjustChairMap(tables.val, lastArgs'[1], lastArgs'[2])
               /\ savedTables' = savedTables
               /\ unsavedChanges'
       /\ lastOp' \in {"mouseUp", "mouseUpMoved"}
            => /\ tables'.val = MouseUpMap(tables.val)
               /\ savedTables' = savedTables
               /\ unsavedChanges' = (unsavedChanges \/ ~NoDrag(tables.val))
       /\ lastOp' = "save"
            => /\ tables' = tables
               /\ savedTables' = savedTables
               /\ ~unsavedChanges'
       /\ lastOp' \in {"saveOk", "saveError"}
            => \E i \in 1..Len(upserts) :
                   /\ Answered(i)
                   /\ tables' = tables
                   /\ savedTables' = IF upserts[i].status = "ok"
                                        THEN upserts[i].data ELSE savedTables
                   /\ unsavedChanges' = unsavedChanges
       /\ ResetStep
            => /\ tables' = savedTables
               /\ savedTables' = savedTables
               /\ ~unsavedChanges']_vars

\* C11 happens: the log sink is down, so that every append has failed, and
\* yet an edit was applied and saved by hand, and the answered upsert is the
\* snapshot.
C11_Witness ==
    /\ ~logsUp
    /\ logs = <<>>
    /\ lastOp = "saveOk"
    /\ savedTables.val # generateInitialTables
    /\ savedTables.val # ExternalLayout

\* nothing is on its way: the load is done, every upsert has been answered,
\* every notification handled, and no drag is in progress
Quiet ==
    /\ load = "done"
    /\ upserts = <<>>
    /\ notifs = <<>>
    /\ NoDrag(tables.val)

\* C12: when no upsert fails, a session that loaded the stored row and has
\* become quiet (so that it stays as it is unless the user acts again) is
\* clean and draft = saved = the row of the store.
C12_QuietIsConsistent ==
    (Quiet /\ loadData # <<>>)
        => /\ ~unsavedChanges
           /\ tables.val = savedTables.val
           /\ row = <<tables.val>>

\* the table of layout l with identifier id
TableOf(l, id) == l[CHOOSE k \in 1..Len(l) : l[k].id = id]

\* C13: adjustChairCount(tableId, delta) on a regular table with c seats
\* leaves it with exactly n = max(1, min(10, c + delta)) seats, and the seat
\* at index i (from 0) has the identifier tableId * 100 + i.
C13_ResizeClampsAndNumbers ==
    [][(/\ lastOp' = "adjustChairCount"
        /\ \E k \in 1..Len(tables.val) :
               tables.val[k].id = lastArgs'[1] /\ ~tables.val[k].special)
        => LET t == lastArgs'[1]
               c == Len(TableOf(tables.val, t).chairs)
               s == c + lastArgs'[2]
               n == IF s < 1 THEN 1 ELSE IF s > 10 THEN 10 ELSE s
               after == TableOf(tables'.val, t).chairs
           IN  /\ Len(after) = n
               /\ \A i \in 0..(n - 1) : after[i + 1].id = t * 100 + i]_vars

\* C13 happens: a table of more than six seats was shrunk by five and then
\* grown by five, which the upper bound cut short at ten seats.
C13_Witness ==
    /\ lastOp = "adjustChairCount"
    /\ lastArgs = <<1, 5>>
    /\ ops = 2
    /\ Len(TableOf(tables.val, 1).chairs) = 10
    /\ TableOf(tables.val, 1).chairs[3].name = ""

\* C14: a resize of a regular table keeps the name and the group of every
\* seat whose index exists before and after it, and leaves every seat at an
\* index beyond the old list with a blank name and a blank group; so what a
\* shrink has dropped is not brought back by growing again.
C14_ResizeKeepsGuests ==
    [][(/\ lastOp' = "adjustChairCount"
        /\ \E k \in 1..Len(tables.val) :
               tables.val[k].id = lastArgs'[1] /\ ~tables.val[k].special)
        => LET before == TableOf(tables.val, lastArgs'[1]).chairs
               after == TableOf(tables'.val, lastArgs'[1]).chairs
           IN  \A i \in 1..Len(after) :
                   IF i <= Len(before)
                   THEN /\ after[i].name = before[i].name
                        /\ after[i].group = before[i].group
                   ELSE /\ after[i].name = ""
                        /\ after[i].group = ""]_vars

\* C14 happens: the table loaded with ten guests was shrunk to nine seats
\* and grown back to ten; the ninth guest is still seated, the tenth seat
\* is blank.
C14_Witness ==
    /\ lastOp = "adjustChairCount"
    /\ lastArgs = <<1, 1>>
    /\ Len(TableOf(loadData[1], 1).chairs) = 10
    /\ TableOf(loadData[1], 1).chairs[10].name = "Jo"
    /\ Len(TableOf(tables.val, 1).chairs) = 10
    /\ TableOf(tables.val, 1).chairs[9].name = "Ida"
    /\ TableOf(tables.val, 1).chairs[9].group = GuestGroup
    /\ TableOf(tables.val, 1).chairs[10].name = ""
    /\ TableOf(tables.val, 1).chairs[10].group = ""

\* C15 (as claimed): adjustChairCount on the special table (id 0) is no
\* operation at all, whatever the delta: the draft, the saved snapshot and
\* unsavedChanges are left as they were, no log entry is appended and the
\* table keeps its two seats; and a mouse move while the special table is
\* being dragged changes its position.
C15_SpecialResizeIsNoOp ==
    [][/\ (lastOp' = "adjustChairCount" /\ lastArgs'[1] = 0)
            => /\ tables'.val = tables.val
               /\ savedTables' = savedTables
               /\ unsavedChanges' = unsavedChanges
               /\ logs' = logs
               /\ Len(TableOf(tables'.val, 0).chairs) = 2
       /\ (lastOp' = "mouseMove" /\ TableOf(tables.val, 0).isDragging
                                 /\ lastArgs'[1] # dragOffset)
            => \/ TableOf(tables'.val, 0).x # TableOf(tables.val, 0).x
               \/ TableOf(tables'.val, 0).y # TableOf(tables.val, 0).y]_vars

\* C16 (as claimed): in the initial layout and after any local mutations,
\* every seat of every table of the draft, the special table included, has
\* the identifier table.id * 100 + its index (from 0) in the seat list.
C16_SeatIdentity ==
    \A k \in 1..Len(tables.val) :
        \A i \in 1..Len(tables.val[k].chairs) :
            tables.val[k].chairs[i].id = tables.val[k].id * 100 + (i - 1)

\* C17: updateChair(tableId, chairId, field, value) changes the named field
\* of the seat with that identifier in that table and nothing else: the
\* other fields of that seat, every other seat, the position, the flags and
\* the seat count of every table and the saved snapshot are as before; when
\* no seat matches, the content of the draft is as before.
C17_UpdateTouchesOneField ==
    [][(lastOp' = "updateChair")
        => LET t == lastArgs'[1]
               c == lastArgs'[2]
               f == lastArgs'[3]
               v == lastArgs'[4]
               before == tables.val
               after == tables'.val
           IN  /\ savedTables' = savedTables
               /\ Len(after) = Len(before)
               /\ \A k \in 1..Len(before) :
                     /\ after[k].id = before[k].id
                     /\ after[k].x = before[k].x
                     /\ after[k].y = before[k].y
                     /\ after[k].isDragging = before[k].isDragging
                     /\ after[k].special = before[k].special
                     /\ Len(after[k].chairs) = Len(before[k].chairs)
                     /\ \A j \in 1..Len(before[k].chairs) :
                           IF before[k].id = t /\ before[k].chairs[j].id = c
                           THEN /\ after[k].chairs[j].id = c
                                /\ after[k].chairs[j].angle = before[k].chairs[j].angle
                                /\ IF f = "name"
                                   THEN /\ after[k].chairs[j].name = v
                                        /\ after[k].chairs[j].group
                                              = before[k].chairs[j].group
                                   ELSE /\ after[k].chairs[j].group = v
                                        /\ after[k].chairs[j].name
                                              = before[k].chairs[j].name
                           ELSE after[k].chairs[j] = before[k].chairs[j]
               /\ (\A k \in 1..Len(before) : \A j \in 1..Len(before[k].chairs) :
                        ~(before[k].id = t /\ before[k].chairs[j].id = c))
                    => after = before]_vars

\* C17 happens: the group of seat 1 of the special table was set, its name
\* and the other seat are as loaded.
C17_Witness ==
    /\ lastOp = "updateChair"
    /\ lastArgs = <<0, 1, "group", "Alice">>
    /\ TableOf(tables.val, 0).chairs[1].group = "Alice"
    /\ TableOf(tables.val, 0).chairs[1].name = ""
    /\ TableOf(tables.val, 0).chairs[2] = TableOf(loadData[1], 0).chairs[2]

\* the step leaves the entries logged so far in place, in front of the log
Extends == Len(logs') >= Len(logs) /\ SubSeq(logs', 1, Len(logs)) = logs
\* the entries the step appends
Added == SubSeq(logs', Len(logs) + 1, Len(logs'))
\* the step appends exactly one entry, of this kind
AddsOne(kind) == Len(Added) = 1 /\ Added[1].action = kind
\* the entries the operation of the step is to leave, when they are due
OneEntryPerOperation ==
    /\ lastOp' = "updateChair"
         => IF Matching(tables.val, lastArgs'[1], lastArgs'[2]) # <<>>
            THEN AddsOne("update_chair") ELSE Added = <<>>
    /\ lastOp' = "adjustChairCount"
         => IF \E k \in 1..Len(tables.val) :
                    tables.val[k].id = lastArgs'[1] /\ ~tables.val[k].special
            THEN AddsOne("adjust_chair_count") ELSE Added = <<>>
    /\ lastOp' = "mouseUpMoved"
         => /\ Len(Added) = Cardinality({k \in 1..Len(tables.val) :
                                             tables.val[k].isDragging})
            /\ \A n \in 1..Len(Added) : Added[n].action = "move_table"
    /\ ResetStep => AddsOne("reset_changes")
    /\ lastOp' = "saveOk" => AddsOne("save_tables")
    /\ lastOp' \notin {"updateChair", "adjustChairCount", "mouseUpMoved", "reset",
                        "resetStale", "saveOk"}
         => Added = <<>>

\* C18 (as claimed): the log only grows, and every operation leaves its
\* entry: one update_chair per updateChair on an existing seat, one
\* adjust_chair_count per resize of a regular table, one move_table per
\* completed drag of a table, one reset_changes per reset, one save_tables
\* per manual save whose upsert succeeded, and nothing otherwise.
C18_OneEntryPerOperation ==
    [][Extends /\ OneEntryPerOperation]_vars

\* C18 (amended): the log only grows; every operation leaves its entry when
\* the insert into the log succeeds, and leaves the log as it was when the
\* insert fails.
C18_OneEntryPerLoggedOperation ==
    [][/\ Extends
       /\ IF logsUp THEN OneEntryPerOperation ELSE Added = <<>>]_vars

\* C18 happens: an edit and a manual save that succeeded have both left
\* their entry, the older one first.
C18_Witness ==
    /\ logsUp
    /\ lastOp = "saveOk"
    /\ Len(logs) >= 2
    /\ logs[1].action \in {"update_chair", "adjust_chair_count", "move_table"}
    /\ logs[Len(logs)].action = "save_tables"

\* C19: handling a notification writes nothing to the store: the step that
\* handles it, whether it adopts the notified layout or keeps a dirty
\* draft, issues no upsert and leaves the row alone; every upsert is issued
\* by the step of a user gesture.
C19_RemoteUpdateIssuesNoWrite ==
    [][/\ Handled => (upserts' = upserts /\ row' = row)
       /\ Len(upserts') > Len(upserts)
            => lastOp' \in {"mouseDown", "mouseMove", "mouseUp", "mouseUpMoved",
                            "updateChair", "adjustChairCount", "save"}]_vars

\* C19 happens: a notified layout was adopted while isLocalUpdate.current
\* was still true from an earlier save, and nothing was sent.
C19_Witness ==
    /\ lastOp = "remoteClean"
    /\ isLocalUpdate
    /\ tables = savedTables
    /\ upserts = <<>>

\* C20 (as claimed): isDragging is never persisted: in every layout this
\* session has upserted, automatically or by hand, and in the row the store
\* holds, isDragging is false for every table.
C20_DraggingNeverPersisted ==
    /\ \A i \in 1..Len(upserts) : NoDrag(upserts[i].data.val)
    /\ row # <<>> => NoDrag(row[1])

====
